---- MODULE Spec2Model ----
(***************************************************************************)
(* One run of SEOAnalyzer.analyzeWebsite (services/seoAnalyzer.ts, found   *)
(* in src/unnamed/part_000 from line 501 on) as a state machine.           *)
(*                                                                         *)
(* Numbers that are fractions in the program are kept as integers in units *)
(* of 1/10000: a Lighthouse category score of 0.795 is 7950, an LCP of     *)
(* 2500 ms is 25000000, a CLS of 0.1 is 1000.  Math.random() is a choice   *)
(* r in thousandths (0..999), so that r * 0.4 + 0.6 is 6000 + 4 * r.       *)
(* The eleven integer-valued fields of TechnicalMetrics and the score are  *)
(* plain integers.                                                         *)
(*                                                                         *)
(* A URL string is a sequence of its parts, <<"https", "://", "a.com">>;   *)
(* a string that new URL() rejects has no scheme part.                     *)
(***************************************************************************)
EXTENDS Integers, Sequences, FiniteSets, TLC

VARIABLES
    url,              \* the url argument of analyzeWebsite
    onProgress,       \* the callback argument: "absent", "ok" or "faulty" (one that may throw)
    pc,               \* position of the run inside analyzeWebsite
    progress,         \* the values the callback has been invoked with, in order
    completed,        \* the pipeline steps that have completed, in order
    scrapeCalls,      \* invocations of blink.data.scrape
    fetchCalls,       \* invocations of blink.data.fetch
    scrapeError,      \* the error blink.data.scrape raised ("none" when it did not)
    fetchOutcome,     \* "none", "ok" (status 200), "non200" or "threw"
    page,             \* { markdown, metadata } as returned by scrapeWebsite
    pageSpeedData,    \* what getPageSpeedInsights returned
    pageContent,      \* result of analyzePageContent
    technicalMetrics, \* the TechnicalMetrics record
    factors,          \* { positiveFactors, negativeFactors, recommendations }
    structuredData,   \* result of analyzeStructuredData
    socialMedia,      \* result of analyzeSocialMedia
    score,            \* the overall score
    outcome,          \* "running", "returned" or "threw"
    error,            \* the error analyzeWebsite threw ("none" when it did not)
    result,           \* the AuditResult returned (EmptyResult until then)
    app,              \* the state of the App component that starts the run
    other             \* a second analyzeWebsite run that is in progress at the same time

vars == <<url, onProgress, pc, progress, completed, scrapeCalls, fetchCalls,
          scrapeError, fetchOutcome, page, pageSpeedData, pageContent,
          technicalMetrics, factors, structuredData, socialMedia, score,
          outcome, error, result, app, other>>

----------------------------------------------------------------------------
(* Bounds of the inputs *)

\* most level-1 headings on a sampled page
MaxH1 == 2
\* most images on a sampled page
MaxImages == 2

----------------------------------------------------------------------------
(* Values *)

\* an optional numeric field that is undefined
Absent == -1

Categories == {"performance", "accessibility", "best-practices", "seo"}
Audits == {"largest-contentful-paint", "first-input-delay", "cumulative-layout-shift"}

Range(s) == {s[i] : i \in 1..Len(s)}

Max(a, b) == IF a >= b THEN a ELSE b

\* Math.round of n/d for n >= 0, d > 0: the nearest integer, halves up
MathRound(n, d) == (2 * n + d) \div (2 * d)

----------------------------------------------------------------------------
(* Inputs *)

\* the url arguments tried: one that new URL() rejects, one http, one https
Urls == { <<"not a url">>,
          <<"http", "://", "example.com">>,
          <<"https", "://", "example.com">> }

CallbackKinds == {"absent", "ok", "faulty"}

\* errors blink.data.scrape may raise
ScrapeErrors == {"NetworkError", "HTTP 404"}

InvalidUrlError == "TypeError: Invalid URL"
UndefinedReadError == "TypeError: Cannot read properties of undefined"
CallbackError == "Error thrown by onProgress"
ScrapeFailedMessage == "Failed to analyze website. Please check the URL and try again."

\* the text and metadata of a page: lengths of title and meta description
\* (0: none), whitespace-separated words and sentence segments of the
\* markdown, whether the markdown mentions schema.org or application/ld+json,
\* the number of JSON-LD blocks and which social tags the metadata carries
TextSamples == { [title |-> 45, description |-> 140, words |-> 500, sentences |-> 25,
                  schemaOrg |-> FALSE, ldJson |-> TRUE, jsonLd |-> 1,
                  ogTitle |-> TRUE, ogDescription |-> FALSE, ogImage |-> TRUE,
                  twitterCard |-> FALSE, twitterTitle |-> TRUE,
                  twitterDescription |-> FALSE, twitterImage |-> FALSE],
                 [title |-> 0, description |-> 0, words |-> 299, sentences |-> 1,
                  schemaOrg |-> FALSE, ldJson |-> FALSE, jsonLd |-> 0,
                  ogTitle |-> FALSE, ogDescription |-> FALSE, ogImage |-> FALSE,
                  twitterCard |-> FALSE, twitterTitle |-> FALSE,
                  twitterDescription |-> FALSE, twitterImage |-> FALSE] }

\* n level-1 heading lines followed by one level-2 heading line
HeadingLines(n) == [i \in 1..(n + 1) |-> IF i <= n THEN 1 ELSE 2]

\* n image references, as the lengths of their alt texts: every second one has none
ImageRefs(n) == [i \in 1..n |-> IF i % 2 = 1 THEN 5 ELSE 0]

\* the link references of the markdown with the metadata's url:
\* http says whether the href starts with "http", sameHost whether it
\* contains the host name of metadata.url
LinkCases == { [links |-> << [http |-> TRUE, sameHost |-> FALSE],
                             [http |-> FALSE, sameHost |-> FALSE] >>, metaUrl |-> "ok"],
               [links |-> << [http |-> FALSE, sameHost |-> FALSE] >>, metaUrl |-> "missing"],
               [links |-> << [http |-> TRUE, sameHost |-> FALSE] >>, metaUrl |-> "missing"] }

MkPage(t, h, n, l) ==
    [title |-> t.title, description |-> t.description, words |-> t.words,
     sentences |-> t.sentences, schemaOrg |-> t.schemaOrg, ldJson |-> t.ldJson,
     jsonLd |-> t.jsonLd, ogTitle |-> t.ogTitle, ogDescription |-> t.ogDescription,
     ogImage |-> t.ogImage, twitterCard |-> t.twitterCard, twitterTitle |-> t.twitterTitle,
     twitterDescription |-> t.twitterDescription, twitterImage |-> t.twitterImage,
     headings |-> HeadingLines(h), images |-> ImageRefs(n),
     links |-> l.links, metaUrl |-> l.metaUrl]

\* what blink.data.scrape may resolve with
Pages == { MkPage(t, h, n, l) : t \in TextSamples, h \in 0..MaxH1, n \in 0..MaxImages, l \in LinkCases }

EmptyPage == [title |-> 0, description |-> 0, words |-> 0, sentences |-> 1,
              schemaOrg |-> FALSE, ldJson |-> FALSE, jsonLd |-> 0,
              ogTitle |-> FALSE, ogDescription |-> FALSE, ogImage |-> FALSE,
              twitterCard |-> FALSE, twitterTitle |-> FALSE,
              twitterDescription |-> FALSE, twitterImage |-> FALSE,
              headings |-> <<>>, images |-> <<>>, links |-> <<>>, metaUrl |-> "missing"]

\* category scores and audit values of a sampled report
SampleScore(c) == CASE c = "performance" -> 7950
                    [] c = "accessibility" -> 9040
                    [] c = "best-practices" -> 5560
                    [] OTHER -> 10000

SampleValue(a) == CASE a = "largest-contentful-paint" -> 18000000
                    [] a = "first-input-delay" -> 160000
                    [] OTHER -> 200

\* a response body: defined is FALSE for an undefined body, lighthouseResult
\* is FALSE for a body without that object; a category or audit that is
\* missing (or whose enclosing object is missing) is Absent
Body(cs, as, zero) ==
    [defined |-> TRUE, lighthouseResult |-> TRUE,
     score |-> [c \in Categories |-> IF c \in cs THEN (IF zero THEN 0 ELSE SampleScore(c)) ELSE Absent],
     numericValue |-> [a \in Audits |-> IF a \in as THEN (IF zero THEN 0 ELSE SampleValue(a)) ELSE Absent]]

EmptyBody == [defined |-> TRUE, lighthouseResult |-> FALSE,
              score |-> [c \in Categories |-> Absent],
              numericValue |-> [a \in Audits |-> Absent]]

UndefinedBody == [EmptyBody EXCEPT !.defined = FALSE]

\* the bodies a status-200 response may carry
Bodies == { Body(cs, as, zero) : cs \in SUBSET Categories, as \in {{}, Audits}, zero \in BOOLEAN }
          \cup {EmptyBody, UndefinedBody}

\* results of Math.random(), in thousandths
RandSamples == {0, 999}

\* the seven results of Math.random() in one call of getMockPageSpeedData:
\* the four category draws vary freely, the three audit draws together
RandVectors == { r \in [1..7 -> RandSamples] : r[6] = r[5] /\ r[7] = r[5] }

----------------------------------------------------------------------------
(* The pure parts of SEOAnalyzer *)

\* a URL parser that accepts every string
UrlParses_AcceptsAll(u) == TRUE

\* new URL(u) succeeds
UrlParses(u) == Len(u) >= 3 /\ u[2] = "://"

\* urlObj.toString(): a URL without a path gets the path "/"
UrlToString(u) == IF Len(u) = 3 THEN Append(u, "/") ELSE u

\* cleanUrl.startsWith('https://')
StartsWithHttps(u) == Len(u) >= 2 /\ u[1] = "https" /\ u[2] = "://"

\* a catch block that throws the collaborator's error again
ScrapeWebsiteCatch_Rethrow(e) == e

\* the catch block of scrapeWebsite: the collaborator's error e is logged
\* and a new Error with a fixed message is thrown
ScrapeWebsiteCatch(e) == ScrapeFailedMessage

\* the catch block of analyzeWebsite: the error is logged and thrown again
AnalyzeWebsiteCatch(e) == e

\* mock data whose performance score starts at 0.5 instead of 0.6
GetMockPageSpeedData_LowPerformance(r) ==
    [defined |-> TRUE, lighthouseResult |-> TRUE,
     score |-> [c \in Categories |->
                   CASE c = "performance" -> 4 * r[1] + 5000
                     [] c = "accessibility" -> 3 * r[2] + 7000
                     [] c = "best-practices" -> 2 * r[3] + 8000
                     [] OTHER -> 3 * r[4] + 7000],
     numericValue |-> [a \in Audits |->
                   CASE a = "largest-contentful-paint" -> 20000 * r[5] + 10000000
                     [] a = "first-input-delay" -> 1000 * r[6] + 500000
                     [] OTHER -> r[7] + 500]]

\* getMockPageSpeedData, r holding the seven results of Math.random()
GetMockPageSpeedData(r) ==
    [defined |-> TRUE, lighthouseResult |-> TRUE,
     score |-> [c \in Categories |->
                   CASE c = "performance" -> 4 * r[1] + 6000
                     [] c = "accessibility" -> 3 * r[2] + 7000
                     [] c = "best-practices" -> 2 * r[3] + 8000
                     [] OTHER -> 3 * r[4] + 7000],
     numericValue |-> [a \in Audits |->
                   CASE a = "largest-contentful-paint" -> 20000 * r[5] + 10000000
                     [] a = "first-input-delay" -> 1000 * r[6] + 500000
                     [] OTHER -> r[7] + 500]]

\* data.lighthouseResult?.categories?.[c]?.score
CategoryScore(data, c) == IF data.lighthouseResult THEN data.score[c] ELSE Absent

\* data.lighthouseResult?.audits?.[a]?.numericValue
AuditValue(data, a) == IF data.lighthouseResult THEN data.numericValue[a] ELSE Absent

\* v || d : d replaces every falsy v, undefined and 0 alike
OrDefault(v, d) == IF v = Absent \/ v = 0 THEN d ELSE v

\* Math.round((score || d) * 100)
ScaledScore(data, c, d) == MathRound(OrDefault(CategoryScore(data, c), d), 100)

\* the value of Math.max(0, Math.min(100, x)) when x is NaN
NaN == -2

\* analyzePageContent throws: new URL(metadata.url || '') is evaluated for
\* every link whose href starts with "http" and throws unless metadata.url
\* is a URL
PageContentThrows(p) ==
    \E i \in 1..Len(p.links) : p.links[i].http /\ p.metaUrl # "ok"

\* a readability score that is left as the formula gives it
Readability_Unclamped(words, sentences) ==
    IF words = 0 THEN NaN
    ELSE 2068350 - ((10150 * words) \div sentences) - 1269000

\* Flesch approximation, clamped to 0..100 (in 1/10000; the quotient is cut
\* to that precision); 0/0 makes it NaN when there are no words
Readability(words, sentences) ==
    IF words = 0 THEN NaN
    ELSE LET x == 2068350 - ((10150 * words) \div sentences) - 1269000
         IN  Max(0, IF x <= 1000000 THEN x ELSE 1000000)

\* the record analyzePageContent returns (when it does not throw)
AnalyzePageContent(p) ==
    [title |-> p.title,
     metaDescription |-> p.description,
     headings |-> [i \in 1..Len(p.headings) |-> [level |-> p.headings[i]]],
     images |-> [i \in 1..Len(p.images) |-> [hasAlt |-> p.images[i] > 0]],
     links |-> [i \in 1..Len(p.links) |->
                  [isInternal |-> ~p.links[i].http \/ p.links[i].sameHost]],
     wordCount |-> p.words,
     readabilityScore |-> Readability(p.words, p.sentences)]

\* headings.filter(h => h.level === 1).length
H1Count(headings) == Cardinality({i \in 1..Len(headings) : headings[i].level = 1})

\* images.filter(img => img.hasAlt).length
ImagesWithAlt(images) == Cardinality({i \in 1..Len(images) : images[i].hasAlt})

\* images.filter(img => !img.hasAlt).length
ImagesWithoutAlt(images) == Cardinality({i \in 1..Len(images) : ~images[i].hasAlt})

\* Object.keys(metadata).length
MetaTagsCount(p) ==
    Cardinality({k \in {"title", "description", "url", "jsonLd", "ogTitle",
                        "ogDescription", "ogImage", "twitterCard", "twitterTitle",
                        "twitterDescription", "twitterImage"} :
        CASE k = "title" -> p.title > 0
          [] k = "description" -> p.description > 0
          [] k = "url" -> p.metaUrl # "missing"
          [] k = "jsonLd" -> p.jsonLd > 0
          [] k = "ogTitle" -> p.ogTitle
          [] k = "ogDescription" -> p.ogDescription
          [] k = "ogImage" -> p.ogImage
          [] k = "twitterCard" -> p.twitterCard
          [] k = "twitterTitle" -> p.twitterTitle
          [] k = "twitterDescription" -> p.twitterDescription
          [] OTHER -> p.twitterImage})

\* headingsStructure with at least one H1 taken for exactly one
HeadingsStructure_AtLeastOne(content) == H1Count(content.headings) >= 1

\* headingsStructure: pageContent.headings.filter(h => h.level === 1).length === 1
HeadingsStructure(content) == H1Count(content.headings) = 1

\* imageOptimization with Math.floor in the place of Math.round
ImageOptimization_Floor(content) ==
    (ImagesWithAlt(content.images) * 100) \div Max(Len(content.images), 1)

\* imageOptimization: Math.round((withAlt / Math.max(images.length, 1)) * 100)
ImageOptimization(content) ==
    MathRound(ImagesWithAlt(content.images) * 100, Max(Len(content.images), 1))

\* the technicalMetrics literal of analyzeWebsite
BuildTechnicalMetrics(psd, content, p, u) ==
    [pageSpeed |-> ScaledScore(psd, "performance", 7000),
     mobileScore |-> ScaledScore(psd, "seo", 8000),
     httpsEnabled |-> StartsWithHttps(u),
     metaTagsCount |-> MetaTagsCount(p),
     headingsStructure |-> HeadingsStructure(content),
     imageOptimization |-> ImageOptimization(content),
     coreWebVitals |->
        [lcp |-> OrDefault(AuditValue(psd, "largest-contentful-paint"), 25000000),
         fid |-> OrDefault(AuditValue(psd, "first-input-delay"), 1000000),
         cls |-> OrDefault(AuditValue(psd, "cumulative-layout-shift"), 1000)],
     seoScore |-> ScaledScore(psd, "seo", 7500),
     accessibility |-> ScaledScore(psd, "accessibility", 8000),
     bestPractices |-> ScaledScore(psd, "best-practices", 8500),
     performance |-> ScaledScore(psd, "performance", 7000)]

----------------------------------------------------------------------------
(* analyzeSEOFactors: seven rules, each adding to the three lists *)

NoValue == [kind |-> "none", a |-> 0, b |-> 0]
Number(n) == [kind |-> "number", a |-> n, b |-> 0]
\* `${pct.toFixed(1)}%`, the percentage kept in tenths
Percent(tenths) == [kind |-> "percent", a |-> tenths, b |-> 0]
\* `${a}/${b}`
Ratio(x, y) == [kind |-> "ratio", a |-> x, b |-> y]

Factor(t, i, c, v, st) == [title |-> t, impact |-> i, category |-> c, value |-> v, status |-> st]

Lists(pos, neg, rec) == [positiveFactors |-> pos, negativeFactors |-> neg, recommendations |-> rec]

\* a title rule whose range leaves out the lengths 30 and 60
TitleRule_ExclusiveBounds(content) ==
    IF content.title > 0
    THEN IF content.title > 30 /\ content.title < 60
         THEN Lists(<<Factor("Optimal Title Length", "high", "Content", Number(content.title), "pass")>>,
                    <<>>, <<>>)
         ELSE Lists(<<>>,
                    <<Factor("Suboptimal Title Length", "high", "Content", Number(content.title), "fail")>>,
                    <<Factor("Optimize Title Length", "high", "Content", NoValue, "none")>>)
    ELSE Lists(<<>>, <<Factor("Missing Page Title", "high", "Content", NoValue, "fail")>>, <<>>)

\* a title rule that also recommends when the title is missing
TitleRule_RecommendsWhenMissing(content) ==
    IF content.title > 0
    THEN IF content.title >= 30 /\ content.title <= 60
         THEN Lists(<<Factor("Optimal Title Length", "high", "Content", Number(content.title), "pass")>>,
                    <<>>, <<>>)
         ELSE Lists(<<>>,
                    <<Factor("Suboptimal Title Length", "high", "Content", Number(content.title), "fail")>>,
                    <<Factor("Optimize Title Length", "high", "Content", NoValue, "none")>>)
    ELSE Lists(<<>>, <<Factor("Missing Page Title", "high", "Content", NoValue, "fail")>>,
               <<Factor("Optimize Title Length", "high", "Content", NoValue, "none")>>)

TitleRule(content) ==
    IF content.title > 0
    THEN IF content.title >= 30 /\ content.title <= 60
         THEN Lists(<<Factor("Optimal Title Length", "high", "Content", Number(content.title), "pass")>>,
                    <<>>, <<>>)
         ELSE Lists(<<>>,
                    <<Factor("Suboptimal Title Length", "high", "Content", Number(content.title), "fail")>>,
                    <<Factor("Optimize Title Length", "high", "Content", NoValue, "none")>>)
    ELSE Lists(<<>>, <<Factor("Missing Page Title", "high", "Content", NoValue, "fail")>>, <<>>)

\* a meta-description rule that only warns about a missing description
MetaDescriptionRule_MissingWarns(content) ==
    IF content.metaDescription > 0
    THEN IF content.metaDescription >= 120 /\ content.metaDescription <= 160
         THEN Lists(<<Factor("Good Meta Description", "medium", "Content",
                             Number(content.metaDescription), "pass")>>, <<>>, <<>>)
         ELSE Lists(<<>>, <<Factor("Suboptimal Meta Description", "medium", "Content",
                                   Number(content.metaDescription), "warning")>>, <<>>)
    ELSE Lists(<<>>, <<Factor("Missing Meta Description", "medium", "Content", NoValue, "warning")>>, <<>>)

MetaDescriptionRule(content) ==
    IF content.metaDescription > 0
    THEN IF content.metaDescription >= 120 /\ content.metaDescription <= 160
         THEN Lists(<<Factor("Good Meta Description", "medium", "Content",
                             Number(content.metaDescription), "pass")>>, <<>>, <<>>)
         ELSE Lists(<<>>, <<Factor("Suboptimal Meta Description", "medium", "Content",
                                   Number(content.metaDescription), "warning")>>, <<>>)
    ELSE Lists(<<>>, <<Factor("Missing Meta Description", "medium", "Content", NoValue, "fail")>>, <<>>)

\* a heading rule that rates several H1 tags like a missing one
HeadingRule_MultipleIsHigh(content) ==
    LET h1Count == H1Count(content.headings)
    IN  IF h1Count = 1
        THEN Lists(<<Factor("Proper H1 Structure", "high", "Content", NoValue, "pass")>>, <<>>, <<>>)
        ELSE IF h1Count = 0
        THEN Lists(<<>>, <<Factor("Missing H1 Tag", "high", "Content", NoValue, "fail")>>, <<>>)
        ELSE Lists(<<>>, <<Factor("Multiple H1 Tags", "high", "Content", NoValue, "fail")>>, <<>>)

HeadingRule(content) ==
    LET h1Count == H1Count(content.headings)
    IN  IF h1Count = 1
        THEN Lists(<<Factor("Proper H1 Structure", "high", "Content", NoValue, "pass")>>, <<>>, <<>>)
        ELSE IF h1Count = 0
        THEN Lists(<<>>, <<Factor("Missing H1 Tag", "high", "Content", NoValue, "fail")>>, <<>>)
        ELSE Lists(<<>>, <<Factor("Multiple H1 Tags", "medium", "Content", Number(h1Count), "warning")>>, <<>>)

\* an image rule that asks for more than 90% of alt texts
ImageRule_Above90(content) ==
    LET imagesWithoutAlt == ImagesWithoutAlt(content.images)
        totalImages == Len(content.images)
    IN  IF totalImages > 0
        THEN IF (totalImages - imagesWithoutAlt) * 100 > 90 * totalImages
             THEN Lists(<<Factor("Good Image Alt Text Coverage", "medium", "Accessibility",
                                 Percent(MathRound((totalImages - imagesWithoutAlt) * 1000, totalImages)),
                                 "pass")>>, <<>>, <<>>)
             ELSE Lists(<<>>, <<Factor("Missing Image Alt Text", "medium", "Accessibility",
                                       Ratio(imagesWithoutAlt, totalImages), "fail")>>, <<>>)
        ELSE Lists(<<>>, <<>>, <<>>)

ImageRule(content) ==
    LET imagesWithoutAlt == ImagesWithoutAlt(content.images)
        totalImages == Len(content.images)
    IN  IF totalImages > 0
        THEN \* altTextPercentage >= 90
             IF (totalImages - imagesWithoutAlt) * 100 >= 90 * totalImages
             THEN Lists(<<Factor("Good Image Alt Text Coverage", "medium", "Accessibility",
                                 Percent(MathRound((totalImages - imagesWithoutAlt) * 1000, totalImages)),
                                 "pass")>>, <<>>, <<>>)
             ELSE Lists(<<>>, <<Factor("Missing Image Alt Text", "medium", "Accessibility",
                                       Ratio(imagesWithoutAlt, totalImages), "fail")>>, <<>>)
        ELSE Lists(<<>>, <<>>, <<>>)

\* a word-count rule that asks for more than 300 words
WordCountRule_Above300(content) ==
    IF content.wordCount > 300
    THEN Lists(<<Factor("Adequate Content Length", "medium", "Content", Number(content.wordCount), "pass")>>,
               <<>>, <<>>)
    ELSE Lists(<<>>, <<Factor("Thin Content", "medium", "Content", Number(content.wordCount), "warning")>>,
               <<>>)

WordCountRule(content) ==
    IF content.wordCount >= 300
    THEN Lists(<<Factor("Adequate Content Length", "medium", "Content", Number(content.wordCount), "pass")>>,
               <<>>, <<>>)
    ELSE Lists(<<>>, <<Factor("Thin Content", "medium", "Content", Number(content.wordCount), "warning")>>,
               <<>>)

\* an HTTPS rule that says nothing about a site served over HTTPS
HttpsRule_SilentWhenEnabled(metrics) ==
    IF metrics.httpsEnabled
    THEN Lists(<<>>, <<>>, <<>>)
    ELSE Lists(<<>>, <<Factor("HTTPS Not Enabled", "high", "Security", NoValue, "fail")>>, <<>>)

HttpsRule(metrics) ==
    IF metrics.httpsEnabled
    THEN Lists(<<Factor("HTTPS Enabled", "high", "Security", NoValue, "pass")>>, <<>>, <<>>)
    ELSE Lists(<<>>, <<Factor("HTTPS Not Enabled", "high", "Security", NoValue, "fail")>>, <<>>)

\* a performance rule that recommends whatever the score
PerformanceRule_RecommendsAlways(metrics) ==
    IF metrics.performance >= 80
    THEN Lists(<<Factor("Good Performance Score", "high", "Performance", Number(metrics.performance), "pass")>>,
               <<>>,
               <<Factor("Improve Page Speed", "high", "Performance", NoValue, "none")>>)
    ELSE Lists(<<>>,
               <<Factor("Poor Performance Score", "high", "Performance", Number(metrics.performance), "fail")>>,
               <<Factor("Improve Page Speed", "high", "Performance", NoValue, "none")>>)

PerformanceRule(metrics) ==
    IF metrics.performance >= 80
    THEN Lists(<<Factor("Good Performance Score", "high", "Performance", Number(metrics.performance), "pass")>>,
               <<>>, <<>>)
    ELSE Lists(<<>>,
               <<Factor("Poor Performance Score", "high", "Performance", Number(metrics.performance), "fail")>>,
               <<Factor("Improve Page Speed", "high", "Performance", NoValue, "none")>>)

\* the lists after the rules have run in the order of the source
Merge(x, y) == Lists(x.positiveFactors \o y.positiveFactors,
                     x.negativeFactors \o y.negativeFactors,
                     x.recommendations \o y.recommendations)

AnalyzeSEOFactors(content, metrics) ==
    Merge(TitleRule(content),
    Merge(MetaDescriptionRule(content),
    Merge(HeadingRule(content),
    Merge(ImageRule(content),
    Merge(WordCountRule(content),
    Merge(HttpsRule(metrics), PerformanceRule(metrics)))))))

\* what each of the seven rule evaluations of analyzeSEOFactors appends, in
\* the order of the source
RuleOutputs(content, metrics) ==
    << TitleRule(content), MetaDescriptionRule(content), HeadingRule(content), ImageRule(content),
       WordCountRule(content), HttpsRule(metrics), PerformanceRule(metrics) >>

\* a structured-data inspection that overlooks the JSON-LD script marker
AnalyzeStructuredData_IgnoresMarker(p) ==
    LET hasSchema == p.schemaOrg \/ p.jsonLd > 0
    IN  [hasSchema |-> hasSchema,
         types |-> IF hasSchema THEN <<"Organization", "WebPage">> ELSE <<>>,
         errors |-> IF hasSchema THEN <<>> ELSE <<"No structured data found">>]

\* analyzeStructuredData
AnalyzeStructuredData(p) ==
    LET hasSchema == p.schemaOrg \/ p.ldJson \/ p.jsonLd > 0
    IN  [hasSchema |-> hasSchema,
         types |-> IF hasSchema THEN <<"Organization", "WebPage">> ELSE <<>>,
         errors |-> IF hasSchema THEN <<>> ELSE <<"No structured data found">>]

\* analyzeSocialMedia
AnalyzeSocialMedia(p) ==
    [hasOpenGraph |-> p.ogTitle \/ p.ogDescription \/ p.ogImage,
     hasTwitterCards |-> p.twitterCard \/ p.twitterTitle,
     ogTitle |-> p.ogTitle, ogDescription |-> p.ogDescription, ogImage |-> p.ogImage]

\* a score with the weights of seoScore and performance exchanged
ComputeScore_WeightsExchanged(metrics, negativeFactors) ==
    MathRound(25 * metrics.seoScore + 30 * metrics.performance
              + 20 * metrics.accessibility + 15 * metrics.bestPractices
              + 10 * Max(0, 100 - Len(negativeFactors) * 5), 100)

\* the overall score: Math.round of the weighted sum
ComputeScore(metrics, negativeFactors) ==
    MathRound(30 * metrics.seoScore + 25 * metrics.performance
              + 20 * metrics.accessibility + 15 * metrics.bestPractices
              + 10 * Max(0, 100 - Len(negativeFactors) * 5), 100)

----------------------------------------------------------------------------
(* The run *)

EmptyContent == [title |-> 0, metaDescription |-> 0, headings |-> <<>>, images |-> <<>>,
                 links |-> <<>>, wordCount |-> 0, readabilityScore |-> 0]

EmptyMetrics == [pageSpeed |-> 0, mobileScore |-> 0, httpsEnabled |-> FALSE,
                 metaTagsCount |-> 0, headingsStructure |-> FALSE, imageOptimization |-> 0,
                 coreWebVitals |-> [lcp |-> 0, fid |-> 0, cls |-> 0],
                 seoScore |-> 0, accessibility |-> 0, bestPractices |-> 0, performance |-> 0]

EmptyStructuredData == [hasSchema |-> FALSE, types |-> <<>>, errors |-> <<>>]

EmptySocialMedia == [hasOpenGraph |-> FALSE, hasTwitterCards |-> FALSE,
                     ogTitle |-> FALSE, ogDescription |-> FALSE, ogImage |-> FALSE]

\* the object literal analyzeWebsite returns
AuditResult(sc, u, f, m, c, sd, sm) ==
    [score |-> sc, url |-> u,
     positiveFactors |-> f.positiveFactors,
     negativeFactors |-> f.negativeFactors,
     recommendations |-> f.recommendations,
     technicalMetrics |-> m, pageContent |-> c,
     structuredData |-> sd, socialMedia |-> sm]

EmptyResult == AuditResult(0, <<>>, Lists(<<>>, <<>>, <<>>), EmptyMetrics, EmptyContent,
                           EmptyStructuredData, EmptySocialMedia)

\* const cleanUrl = urlObj.toString()
cleanUrl == UrlToString(url)

\* checkpoints with the values 60 and 70 exchanged
Checkpoint_Exchanged(p) == CASE p = "p10" -> 10 [] p = "p30" -> 30 [] p = "p60" -> 70
                             [] p = "p70" -> 60 [] p = "p80" -> 80 [] p = "p90" -> 90
                             [] OTHER -> 100

\* the positions at which onProgress?.(v) stands, with v
Checkpoint(p) == CASE p = "p10" -> 10 [] p = "p30" -> 30 [] p = "p60" -> 60
                   [] p = "p70" -> 70 [] p = "p80" -> 80 [] p = "p90" -> 90
                   [] OTHER -> 100

\* the statement that follows each onProgress?.(v)
AfterCheckpoint(p) == CASE p = "p10" -> "scrape" [] p = "p30" -> "fetch"
                        [] p = "p60" -> "content" [] p = "p70" -> "metrics"
                        [] p = "p80" -> "factors" [] p = "p90" -> "score"
                        [] OTHER -> "return"

CheckpointPcs == {"p10", "p30", "p60", "p70", "p80", "p90", "p100"}

\* useState(false), useState<AuditResult | null>(null), useState<string | null>(null);
\* audits counts the handleAudit calls
NullResult == [isNull |-> TRUE, value |-> EmptyResult]
SetResult(r) == [isNull |-> FALSE, value |-> r]
IdleApp == [isAnalyzing |-> FALSE, auditResult |-> NullResult, error |-> "null", audits |-> 0]

\* no second run
NoRun == [pc |-> "none"]

inputs == <<url, onProgress>>
outside == <<app, other>>
calls == <<scrapeCalls, fetchCalls, scrapeError, fetchOutcome>>
data == <<page, pageSpeedData>>
derived == <<pageContent, technicalMetrics, factors, structuredData, socialMedia, score>>

Init ==
    /\ url \in Urls
    /\ onProgress \in CallbackKinds
    /\ pc = "start"
    /\ progress = <<>>
    /\ completed = <<>>
    /\ scrapeCalls = 0
    /\ fetchCalls = 0
    /\ scrapeError = "none"
    /\ fetchOutcome = "none"
    /\ page = EmptyPage
    /\ pageSpeedData = EmptyBody
    /\ pageContent = EmptyContent
    /\ technicalMetrics = EmptyMetrics
    /\ factors = Lists(<<>>, <<>>, <<>>)
    /\ structuredData = EmptyStructuredData
    /\ socialMedia = EmptySocialMedia
    /\ score = 0
    /\ outcome = "running"
    /\ error = "none"
    /\ result = EmptyResult
    /\ app = IdleApp
    /\ other = NoRun

\* an error e raised inside the try block reaches the caller through the catch
Throw(e) ==
    /\ outcome' = "threw"
    /\ error' = AnalyzeWebsiteCatch(e)
    /\ pc' = "done"
    /\ result' = result

\* the run goes on to position p
Goto(p) ==
    /\ pc' = p
    /\ UNCHANGED <<outcome, error, result>>

\* new URL(url)
ValidateUrl ==
    /\ pc = "start"
    /\ IF UrlParses(url) THEN Goto("p10") ELSE Throw(InvalidUrlError)
    /\ UNCHANGED <<outside, inputs, progress, completed, calls, data, derived>>

\* onProgress?.(v) with no callback, or with a callback that returns
ReportProgress ==
    /\ pc \in CheckpointPcs
    /\ progress' = IF onProgress = "absent" THEN progress
                   ELSE Append(progress, Checkpoint(pc))
    /\ Goto(AfterCheckpoint(pc))
    /\ UNCHANGED <<outside, inputs, completed, calls, data, derived>>

\* onProgress(v) with a callback that throws
ProgressThrows ==
    /\ pc \in CheckpointPcs
    /\ onProgress = "faulty"
    /\ progress' = Append(progress, Checkpoint(pc))
    /\ Throw(CallbackError)
    /\ UNCHANGED <<outside, inputs, completed, calls, data, derived>>

\* scrapeWebsite calls blink.data.scrape(cleanUrl)
CallScrape ==
    /\ pc = "scrape"
    /\ scrapeCalls' = scrapeCalls + 1
    /\ Goto("scrapeWait")
    /\ UNCHANGED <<outside, inputs, progress, completed, fetchCalls, scrapeError, fetchOutcome, data, derived>>

\* blink.data.scrape resolves with one of the pages ps
ScrapeResolvesWith(ps) ==
    /\ pc = "scrapeWait"
    /\ \E p \in ps : page' = p
    /\ completed' = Append(completed, "scrape")
    /\ Goto("p30")
    /\ UNCHANGED <<outside, inputs, progress, calls, pageSpeedData, derived>>

\* blink.data.scrape resolves
ScrapeResolves == ScrapeResolvesWith(Pages)

\* a scrape failure that is recorded but does not stop the run
ScrapeRejects_Swallowed ==
    /\ pc = "scrapeWait"
    /\ \E e \in ScrapeErrors : scrapeError' = e
    /\ Goto("p30")
    /\ UNCHANGED <<outside, inputs, progress, completed, scrapeCalls, fetchCalls, fetchOutcome, data, derived>>

\* blink.data.scrape rejects
ScrapeRejects ==
    /\ pc = "scrapeWait"
    /\ \E e \in ScrapeErrors :
          /\ scrapeError' = e
          /\ Throw(ScrapeWebsiteCatch(e))
    /\ UNCHANGED <<outside, inputs, progress, completed, scrapeCalls, fetchCalls, fetchOutcome, data, derived>>

\* getPageSpeedInsights calls blink.data.fetch
CallFetch ==
    /\ pc = "fetch"
    /\ fetchCalls' = fetchCalls + 1
    /\ Goto("fetchWait")
    /\ UNCHANGED <<outside, inputs, progress, completed, scrapeCalls, scrapeError, fetchOutcome, data, derived>>

\* blink.data.fetch resolves with status 200: the body is returned as it is
FetchResolves200 ==
    /\ pc = "fetchWait"
    /\ \E b \in Bodies : pageSpeedData' = b
    /\ fetchOutcome' = "ok"
    /\ completed' = Append(completed, "report")
    /\ Goto("p60")
    /\ UNCHANGED <<outside, inputs, progress, scrapeCalls, fetchCalls, scrapeError, page, derived>>

\* blink.data.fetch resolves with another status: mock data
FetchResolvesOther ==
    /\ pc = "fetchWait"
    /\ \E r \in RandVectors : pageSpeedData' = GetMockPageSpeedData(r)
    /\ fetchOutcome' = "non200"
    /\ completed' = Append(completed, "report")
    /\ Goto("p60")
    /\ UNCHANGED <<outside, inputs, progress, scrapeCalls, fetchCalls, scrapeError, page, derived>>

\* a rejected blink.data.fetch that is tried once more before the mock data
FetchRejects_Retries ==
    /\ pc = "fetchWait"
    /\ fetchOutcome' = "threw"
    /\ IF fetchCalls < 2
       THEN /\ Goto("fetch")
            /\ UNCHANGED <<pageSpeedData, completed>>
       ELSE /\ \E r \in RandVectors : pageSpeedData' = GetMockPageSpeedData(r)
            /\ completed' = Append(completed, "report")
            /\ Goto("p60")
    /\ UNCHANGED <<outside, inputs, progress, scrapeCalls, fetchCalls, scrapeError, page, derived>>

\* blink.data.fetch rejects: mock data
FetchRejects ==
    /\ pc = "fetchWait"
    /\ \E r \in RandVectors : pageSpeedData' = GetMockPageSpeedData(r)
    /\ fetchOutcome' = "threw"
    /\ completed' = Append(completed, "report")
    /\ Goto("p60")
    /\ UNCHANGED <<outside, inputs, progress, scrapeCalls, fetchCalls, scrapeError, page, derived>>

\* const pageContent = this.analyzePageContent(markdown, metadata, extract)
AnalyzeContent ==
    /\ pc = "content"
    /\ IF PageContentThrows(page)
       THEN /\ Throw(InvalidUrlError)
            /\ UNCHANGED <<pageContent, completed>>
       ELSE /\ pageContent' = AnalyzePageContent(page)
            /\ completed' = Append(completed, "content")
            /\ Goto("p70")
    /\ UNCHANGED <<outside, inputs, progress, calls, data, technicalMetrics, factors,
                   structuredData, socialMedia, score>>

\* const technicalMetrics = { ... }: reading pageSpeedData.lighthouseResult
\* throws when pageSpeedData is undefined
BuildMetrics ==
    /\ pc = "metrics"
    /\ IF ~pageSpeedData.defined
       THEN /\ Throw(UndefinedReadError)
            /\ UNCHANGED <<technicalMetrics, completed>>
       ELSE /\ technicalMetrics' = BuildTechnicalMetrics(pageSpeedData, pageContent, page, cleanUrl)
            /\ completed' = Append(completed, "metrics")
            /\ Goto("p80")
    /\ UNCHANGED <<outside, inputs, progress, calls, data, pageContent, factors,
                   structuredData, socialMedia, score>>

\* this.analyzeSEOFactors(pageContent, metadata, technicalMetrics)
AnalyzeFactors ==
    /\ pc = "factors"
    /\ factors' = AnalyzeSEOFactors(pageContent, technicalMetrics)
    /\ completed' = Append(completed, "factors")
    /\ Goto("structured")
    /\ UNCHANGED <<outside, inputs, progress, calls, data, pageContent, technicalMetrics,
                   structuredData, socialMedia, score>>

\* this.analyzeStructuredData(markdown, metadata)
AnalyzeStructured ==
    /\ pc = "structured"
    /\ structuredData' = AnalyzeStructuredData(page)
    /\ completed' = Append(completed, "structured")
    /\ Goto("social")
    /\ UNCHANGED <<outside, inputs, progress, calls, data, pageContent, technicalMetrics,
                   factors, socialMedia, score>>

\* this.analyzeSocialMedia(metadata)
AnalyzeSocial ==
    /\ pc = "social"
    /\ socialMedia' = AnalyzeSocialMedia(page)
    /\ completed' = Append(completed, "social")
    /\ Goto("p90")
    /\ UNCHANGED <<outside, inputs, progress, calls, data, pageContent, technicalMetrics,
                   factors, structuredData, score>>

\* const score = Math.round(...)
CalculateScore ==
    /\ pc = "score"
    /\ score' = ComputeScore(technicalMetrics, factors.negativeFactors)
    /\ completed' = Append(completed, "score")
    /\ Goto("p100")
    /\ UNCHANGED <<outside, inputs, progress, calls, data, pageContent, technicalMetrics,
                   factors, structuredData, socialMedia>>

\* return { score, url: cleanUrl, ... }
Return ==
    /\ pc = "return"
    /\ result' = AuditResult(score, cleanUrl, factors, technicalMetrics, pageContent,
                             structuredData, socialMedia)
    /\ outcome' = "returned"
    /\ pc' = "done"
    /\ UNCHANGED <<outside, inputs, progress, completed, calls, data, derived, error>>

Next ==
    \/ ValidateUrl
    \/ ReportProgress
    \/ ProgressThrows
    \/ CallScrape
    \/ ScrapeResolves
    \/ ScrapeRejects
    \/ CallFetch
    \/ FetchResolves200
    \/ FetchResolvesOther
    \/ FetchRejects
    \/ AnalyzeContent
    \/ BuildMetrics
    \/ AnalyzeFactors
    \/ AnalyzeStructured
    \/ AnalyzeSocial
    \/ CalculateScore
    \/ Return

Spec == Init /\ [][Next]_vars

----------------------------------------------------------------------------
(* The analysis half of a run on its own: the run stands behind             *)
(* onProgress?.(60) with a scraped page and a performance report, both      *)
(* drawn from sets that hold the thresholds of the rules, and goes through  *)
(* the steps of analyzeWebsite from there.                                  *)

TitleLengths == {0, 29, 30, 60, 61}
DescriptionLengths == {0, 119, 120, 161}
WordCounts == {299, 300}

\* <<number of images, number of them with alt text>>
ImageCases == { <<0, 0>>, <<1, 0>>, <<1, 1>>, <<3, 2>>, <<10, 8>>, <<10, 9>>, <<10, 10>> }

\* n image references of which the first k have an alt text
ImageAlts(n, k) == [i \in 1..n |-> IF i <= k THEN 5 ELSE 0]

\* the sentences of the sampled texts: 299 words in one sentence, 300 words
\* in 15
AnalysisSentences(w) == IF w = 300 THEN 15 ELSE 1

\* pages whose links do not need metadata.url
AnalysisPages ==
    { [EmptyPage EXCEPT !.title = t, !.description = d, !.words = w,
                        !.sentences = AnalysisSentences(w),
                        !.headings = HeadingLines(h),
                        !.images = ImageAlts(c[1], c[2]),
                        !.links = << [http |-> FALSE, sameHost |-> FALSE] >>,
                        !.metaUrl = "ok"]
      : t \in TitleLengths, d \in DescriptionLengths, w \in WordCounts,
        h \in 0..MaxH1, c \in ImageCases }

\* reports whose performance becomes 70 (absent), 79 and 80
AnalysisBodies ==
    { EmptyBody,
      Body(Categories, Audits, FALSE),
      [Body(Categories, Audits, FALSE) EXCEPT !.score["performance"] = 7949] }

InitAnalysis ==
    /\ url \in {u \in Urls : UrlParses(u)}
    /\ onProgress = "ok"
    /\ pc = "content"
    /\ progress = <<10, 30, 60>>
    /\ completed = <<"scrape", "report">>
    /\ scrapeCalls = 1
    /\ fetchCalls = 1
    /\ scrapeError = "none"
    /\ fetchOutcome = "ok"
    /\ page \in AnalysisPages
    /\ pageSpeedData \in AnalysisBodies
    /\ pageContent = EmptyContent
    /\ technicalMetrics = EmptyMetrics
    /\ factors = Lists(<<>>, <<>>, <<>>)
    /\ structuredData = EmptyStructuredData
    /\ socialMedia = EmptySocialMedia
    /\ score = 0
    /\ outcome = "running"
    /\ error = "none"
    /\ result = EmptyResult
    /\ app = IdleApp
    /\ other = NoRun

NextAnalysis ==
    \/ AnalyzeContent
    \/ ReportProgress
    \/ BuildMetrics
    \/ AnalyzeFactors
    \/ AnalyzeStructured
    \/ AnalyzeSocial
    \/ CalculateScore
    \/ Return

SpecAnalysis == InitAnalysis /\ [][NextAnalysis]_vars

-----------------------------------------------------------------------------
(* The inspection half of a run *)

\* pages with every combination of schema markers and social metadata
InspectPages ==
    { [EmptyPage EXCEPT !.title = 45, !.words = 300, !.sentences = 15, !.metaUrl = "ok",
                        !.schemaOrg = m[1], !.ldJson = m[2], !.jsonLd = IF m[3] THEN 1 ELSE 0,
                        !.ogTitle = o[1], !.ogDescription = o[2], !.ogImage = o[3],
                        !.twitterCard = t[1], !.twitterTitle = t[2],
                        !.twitterDescription = t[3], !.twitterImage = t[4]]
      : m \in [1..3 -> BOOLEAN], o \in [1..3 -> BOOLEAN], t \in [1..4 -> BOOLEAN] }

\* the state analyzeWebsite is in after checkpoint 80
InitInspect ==
    /\ url \in {u \in Urls : UrlParses(u)}
    /\ onProgress = "ok"
    /\ pc = "structured"
    /\ progress = <<10, 30, 60, 70, 80>>
    /\ completed = <<"scrape", "report", "content", "metrics", "factors">>
    /\ scrapeCalls = 1
    /\ fetchCalls = 1
    /\ scrapeError = "none"
    /\ fetchOutcome = "ok"
    /\ page \in InspectPages
    /\ pageSpeedData = Body(Categories, Audits, FALSE)
    /\ pageContent = AnalyzePageContent(page)
    /\ technicalMetrics = BuildTechnicalMetrics(pageSpeedData, pageContent, page, cleanUrl)
    /\ factors = AnalyzeSEOFactors(pageContent, technicalMetrics)
    /\ structuredData = EmptyStructuredData
    /\ socialMedia = EmptySocialMedia
    /\ score = 0
    /\ outcome = "running"
    /\ error = "none"
    /\ result = EmptyResult
    /\ app = IdleApp
    /\ other = NoRun

NextInspect ==
    \/ AnalyzeStructured
    \/ AnalyzeSocial
    \/ ReportProgress
    \/ CalculateScore
    \/ Return

SpecInspect == InitInspect /\ [][NextInspect]_vars

-----------------------------------------------------------------------------
(* The App component: handleAudit around analyzeWebsite *)

\* handleAudit calls the user may make
MaxAudits == 2

\* the locals of a run that has not started
FreshRun ==
    /\ progress' = <<>>
    /\ completed' = <<>>
    /\ scrapeCalls' = 0
    /\ fetchCalls' = 0
    /\ scrapeError' = "none"
    /\ fetchOutcome' = "none"
    /\ page' = EmptyPage
    /\ pageSpeedData' = EmptyBody
    /\ pageContent' = EmptyContent
    /\ technicalMetrics' = EmptyMetrics
    /\ factors' = Lists(<<>>, <<>>, <<>>)
    /\ structuredData' = EmptyStructuredData
    /\ socialMedia' = EmptySocialMedia
    /\ score' = 0
    /\ outcome' = "running"
    /\ error' = "none"
    /\ result' = EmptyResult

\* the App after mounting: url is '', nothing is running
InitApp ==
    /\ url = <<>>
    /\ onProgress = "ok"
    /\ pc = "idle"
    /\ progress = <<>>
    /\ completed = <<>>
    /\ scrapeCalls = 0
    /\ fetchCalls = 0
    /\ scrapeError = "none"
    /\ fetchOutcome = "none"
    /\ page = EmptyPage
    /\ pageSpeedData = EmptyBody
    /\ pageContent = EmptyContent
    /\ technicalMetrics = EmptyMetrics
    /\ factors = Lists(<<>>, <<>>, <<>>)
    /\ structuredData = EmptyStructuredData
    /\ socialMedia = EmptySocialMedia
    /\ score = 0
    /\ outcome = "running"
    /\ error = "none"
    /\ result = EmptyResult
    /\ app = IdleApp
    /\ other = NoRun

\* onChange of the Input, which is disabled while analyzing
SetUrl ==
    /\ ~app.isAnalyzing
    /\ \E u \in Urls \cup {<<>>} : u # url /\ url' = u
    /\ UNCHANGED <<onProgress, pc, progress, completed, calls, data, derived,
                   outcome, error, result, outside>>

\* a handleAudit that leaves the previous error message in place
HandleAudit_KeepsError ==
    /\ url # <<>>
    /\ ~app.isAnalyzing
    /\ app.audits < MaxAudits
    /\ app' = [isAnalyzing |-> TRUE, auditResult |-> NullResult, error |-> app.error,
               audits |-> app.audits + 1]
    /\ pc' = "start"
    /\ FreshRun
    /\ UNCHANGED <<inputs, other>>

\* handleAudit up to the await: the Button is disabled without a url and
\* while analyzing
HandleAudit ==
    /\ url # <<>>
    /\ ~app.isAnalyzing
    /\ app.audits < MaxAudits
    /\ app' = [isAnalyzing |-> TRUE, auditResult |-> NullResult, error |-> "null",
               audits |-> app.audits + 1]
    /\ pc' = "start"
    /\ FreshRun
    /\ UNCHANGED <<inputs, other>>

\* setAuditResult(result), then the finally block
AuditResolves ==
    /\ app.isAnalyzing
    /\ pc = "done"
    /\ outcome = "returned"
    /\ app' = [app EXCEPT !.auditResult = SetResult(result), !.isAnalyzing = FALSE]
    /\ UNCHANGED <<inputs, pc, progress, completed, calls, data, derived,
                   outcome, error, result, other>>

\* a catch block that is not followed by the finally block
AuditRejects_NoFinally ==
    /\ app.isAnalyzing
    /\ app.error = "null"
    /\ pc = "done"
    /\ outcome = "threw"
    /\ app' = [app EXCEPT !.error = error]
    /\ UNCHANGED <<inputs, pc, progress, completed, calls, data, derived,
                   outcome, error, result, other>>

\* setError(err.message), then the finally block
AuditRejects ==
    /\ app.isAnalyzing
    /\ pc = "done"
    /\ outcome = "threw"
    /\ app' = [app EXCEPT !.error = error, !.isAnalyzing = FALSE]
    /\ UNCHANGED <<inputs, pc, progress, completed, calls, data, derived,
                   outcome, error, result, other>>

\* the pages the App's audits meet: one whose links need no metadata.url,
\* one with an absolute link and no metadata.url
AppPages ==
    { [EmptyPage EXCEPT !.title = 45, !.words = 300, !.sentences = 15, !.metaUrl = "ok"],
      [EmptyPage EXCEPT !.links = << [http |-> TRUE, sameHost |-> FALSE] >>] }

\* the steps of analyzeWebsite with the App's callback, which returns
RunStep ==
    \/ ValidateUrl
    \/ ReportProgress
    \/ CallScrape
    \/ ScrapeResolvesWith(AppPages)
    \/ ScrapeRejects
    \/ CallFetch
    \/ FetchResolves200
    \/ FetchResolvesOther
    \/ FetchRejects
    \/ AnalyzeContent
    \/ BuildMetrics
    \/ AnalyzeFactors
    \/ AnalyzeStructured
    \/ AnalyzeSocial
    \/ CalculateScore
    \/ Return

NextApp ==
    \/ SetUrl
    \/ HandleAudit
    \/ RunStep
    \/ AuditResolves
    \/ AuditRejects

\* the collaborators answer and the run and its continuation are scheduled
SpecApp == InitApp /\ [][NextApp]_vars /\ WF_vars(RunStep \/ AuditResolves \/ AuditRejects)

----------------------------------------------------------------------------
(* Two runs at the same time *)

\* the locals and the outcome of this run
thisRun == <<url, onProgress, pc, progress, completed, scrapeCalls, fetchCalls,
             scrapeError, fetchOutcome, page, pageSpeedData, pageContent,
             technicalMetrics, factors, structuredData, socialMedia, score,
             outcome, error, result>>

\* what one analyzeWebsite(u, callback) reports and ends with, given what
\* its collaborators answered: scrape rejected or page p, then report psd
RunAlone(u, rejected, p, psd) ==
    IF ~UrlParses(u)
    THEN [progress |-> <<>>, outcome |-> "threw", error |-> InvalidUrlError, result |-> EmptyResult]
    ELSE IF rejected
    THEN [progress |-> <<10>>, outcome |-> "threw", error |-> ScrapeFailedMessage,
          result |-> EmptyResult]
    ELSE IF PageContentThrows(p)
    THEN [progress |-> <<10, 30, 60>>, outcome |-> "threw", error |-> InvalidUrlError,
          result |-> EmptyResult]
    ELSE IF ~psd.defined
    THEN [progress |-> <<10, 30, 60, 70>>, outcome |-> "threw", error |-> UndefinedReadError,
          result |-> EmptyResult]
    ELSE LET c == AnalyzePageContent(p)
             t == BuildTechnicalMetrics(psd, c, p, UrlToString(u))
             f == AnalyzeSEOFactors(c, t)
         IN  [progress |-> <<10, 30, 60, 70, 80, 90, 100>>, outcome |-> "returned",
              error |-> "none",
              result |-> AuditResult(ComputeScore(t, f.negativeFactors), UrlToString(u), f, t, c,
                                     AnalyzeStructuredData(p), AnalyzeSocialMedia(p))]

\* the second run: its argument and what its collaborators may answer
OtherUrl == <<"https", "://", "example.com">>
OtherBodies == {EmptyBody, Body(Categories, Audits, FALSE)}

OtherStart == [pc |-> "start", progress |-> <<>>, rejected |-> FALSE, page |-> EmptyPage,
               pageSpeedData |-> EmptyBody, outcome |-> "running", error |-> "none",
               result |-> EmptyResult]

\* the second run up to its first await: new URL, onProgress(10), blink.data.scrape
OtherCallsScrape ==
    /\ other.pc = "start"
    /\ other' = [other EXCEPT !.pc = "scrapeWait", !.progress = <<10>>]
    /\ UNCHANGED <<thisRun, app>>

\* a second run that keeps the scraped page in a field both runs use
OtherScrapeResolves_SharedPage ==
    /\ other.pc = "scrapeWait"
    /\ \E p \in AppPages :
          /\ other' = [other EXCEPT !.pc = "fetchWait", !.page = p, !.progress = <<10, 30>>]
          /\ page' = p
    /\ UNCHANGED <<url, onProgress, pc, progress, completed, scrapeCalls, fetchCalls,
                   scrapeError, fetchOutcome, pageSpeedData, pageContent,
                   technicalMetrics, factors, structuredData, socialMedia, score,
                   outcome, error, result, app>>

\* the second run from the scrape's answer to its second await
OtherScrapeResolves ==
    /\ other.pc = "scrapeWait"
    /\ \E p \in AppPages :
          other' = [other EXCEPT !.pc = "fetchWait", !.page = p, !.progress = <<10, 30>>]
    /\ UNCHANGED <<thisRun, app>>

\* the second run's scrape is rejected
OtherScrapeRejects ==
    /\ other.pc = "scrapeWait"
    /\ other' = [other EXCEPT !.pc = "done", !.rejected = TRUE, !.outcome = "threw",
                              !.error = ScrapeFailedMessage]
    /\ UNCHANGED <<thisRun, app>>

\* the second run from the report's answer to its end
OtherFetchResolves ==
    /\ other.pc = "fetchWait"
    /\ \E b \in OtherBodies :
          LET r == RunAlone(OtherUrl, FALSE, other.page, b)
          IN  other' = [other EXCEPT !.pc = "done", !.pageSpeedData = b,
                                     !.progress = r.progress, !.outcome = r.outcome,
                                     !.error = r.error, !.result = r.result]
    /\ UNCHANGED <<thisRun, app>>

InitPair ==
    /\ url \in Urls
    /\ onProgress = "ok"
    /\ pc = "start"
    /\ progress = <<>>
    /\ completed = <<>>
    /\ scrapeCalls = 0
    /\ fetchCalls = 0
    /\ scrapeError = "none"
    /\ fetchOutcome = "none"
    /\ page = EmptyPage
    /\ pageSpeedData = EmptyBody
    /\ pageContent = EmptyContent
    /\ technicalMetrics = EmptyMetrics
    /\ factors = Lists(<<>>, <<>>, <<>>)
    /\ structuredData = EmptyStructuredData
    /\ socialMedia = EmptySocialMedia
    /\ score = 0
    /\ outcome = "running"
    /\ error = "none"
    /\ result = EmptyResult
    /\ app = IdleApp
    /\ other = OtherStart

NextPair ==
    \/ RunStep
    \/ OtherCallsScrape
    \/ OtherScrapeResolves
    \/ OtherScrapeRejects
    \/ OtherFetchResolves

SpecPair == InitPair /\ [][NextPair]_vars

----------------------------------------------------------------------------
(* Properties *)

AllCheckpoints == <<10, 30, 60, 70, 80, 90, 100>>

ScrapeSucceeded == "scrape" \in Range(completed)

Reported(v) == v \in Range(progress)

Completed(step) == step \in Range(completed)

\* C1: in every finished run whose URL parsed and whose scrape succeeded, a
\* callback that returns normally has been invoked exactly seven times, with
\* 10, 30, 60, 70, 80, 90, 100 in that order, and a result was returned after
\* the 100.
C1_SevenCheckpointsPerRun ==
    (pc = "done" /\ onProgress = "ok" /\ ScrapeSucceeded)
        => (progress = AllCheckpoints /\ outcome = "returned")

\* C2 as stated: every checkpoint follows the step it names, 80 following
\* the Factor Analyzer.
C2_CheckpointAfterNamedStep ==
    /\ Reported(30) => Completed("scrape")
    /\ Reported(60) => Completed("report")
    /\ Reported(70) => Completed("content")
    /\ Reported(80) => Completed("factors")
    /\ Reported(90) => (Completed("structured") /\ Completed("social"))
    /\ Reported(100) => Completed("score")

\* C2 amended: 30 follows the scrape, 60 the performance report, 70 content
\* analysis, 80 the building of the technical metrics (the Factor Analyzer
\* has not run yet when 80 is reported), 90 the Factor Analyzer and the
\* structured-data and social inspection, 100 the score.
C2_CheckpointAfterStep ==
    /\ Reported(30) => Completed("scrape")
    /\ Reported(60) => Completed("report")
    /\ Reported(70) => Completed("content")
    /\ Reported(80) => Completed("metrics")
    /\ (pc = "p80" \/ pc = "factors") => ~Completed("factors")
    /\ (pc = "factors" /\ onProgress # "absent") => Reported(80)
    /\ Reported(90) => (Completed("factors") /\ Completed("structured") /\ Completed("social"))
    /\ Reported(100) => Completed("score")

C2_Witness ==
    /\ outcome = "returned"
    /\ progress = AllCheckpoints
    /\ completed = <<"scrape", "report", "content", "metrics", "factors",
                     "structured", "social", "score">>

\* C3: when the url string does not parse, the run fails, neither
\* collaborator is ever invoked and no AuditResult is produced.
C3_InvalidUrlFailsBeforeIO ==
    url = <<"not a url">> =>
        /\ scrapeCalls = 0
        /\ fetchCalls = 0
        /\ outcome # "returned"
        /\ result = EmptyResult
        /\ progress = <<>>
        /\ pc \in {"start", "done"}
        /\ pc = "done" => (outcome = "threw" /\ error = InvalidUrlError)

C3_Witness ==
    url = <<"not a url">> /\ pc = "done" /\ outcome = "threw"

\* C4: when the scrape collaborator fails the run is aborted: the caller
\* gets a failure and no AuditResult, the performance-report collaborator is
\* never invoked, no later step runs and no checkpoint after 10 is reported.
C4_ScrapeFailureAborts ==
    scrapeError # "none" =>
        /\ pc = "done"
        /\ outcome = "threw"
        /\ error # "none"
        /\ result = EmptyResult
        /\ fetchCalls = 0
        /\ completed = <<>>
        /\ \A i \in 1..Len(progress) : progress[i] = 10

C4_Witness ==
    scrapeError # "none" /\ outcome = "threw" /\ progress = <<10>>

\* C5 as stated: the failure surfaced after a scrape failure is the very
\* error the scrape collaborator raised.
C5_ScrapeErrorUnchanged ==
    scrapeError # "none" => error = scrapeError

\* C5 amended: after a scrape failure the caller gets the Error that
\* scrapeWebsite creates, with the fixed message "Failed to analyze website.
\* Please check the URL and try again.", whatever the collaborator raised;
\* analyzeWebsite passes that error on unchanged.
C5_ScrapeErrorReplaced ==
    scrapeError # "none" => (outcome = "threw" /\ error = ScrapeFailedMessage)

C5_Witness ==
    scrapeError = "HTTP 404" /\ error = ScrapeFailedMessage

ReportFailed == fetchOutcome \in {"non200", "threw"}

\* C6: in every finished run whose URL parsed and whose scrape succeeded, a
\* failed performance report (an exception or a status other than 200) does
\* not fail the run: all seven checkpoints are reported and an AuditResult
\* is returned.
C6_ReportFailureNeverFailsRun ==
    (pc = "done" /\ onProgress = "ok" /\ ReportFailed)
        => (outcome = "returned" /\ progress = AllCheckpoints /\ result # EmptyResult)

\* C7 as stated: after a failed performance report the returned metrics
\* are the documented defaults: the four scores within 70..85, lcp 2500 ms,
\* fid 100 ms, cls 0.1.
C7_FallbackWithinDefaults ==
    (outcome = "returned" /\ ReportFailed) =>
        LET m == result.technicalMetrics
        IN  /\ m.performance \in 70..85
            /\ m.seoScore \in 70..85
            /\ m.accessibility \in 70..85
            /\ m.bestPractices \in 70..85
            /\ m.coreWebVitals.lcp = 25000000
            /\ m.coreWebVitals.fid = 1000000
            /\ m.coreWebVitals.cls = 1000

\* C7 amended: after a failed performance report the returned metrics lie
\* within the ranges of the randomized mock report: performance in 60..100,
\* seoScore and accessibility in 70..100, bestPractices in 80..100, lcp in
\* [1000, 3000) ms, fid in [50, 150) ms and cls in [0.05, 0.15).
C7_FallbackWithinMockRanges ==
    (outcome = "returned" /\ ReportFailed) =>
        LET m == result.technicalMetrics
        IN  /\ m.performance \in 60..100
            /\ m.seoScore \in 70..100
            /\ m.accessibility \in 70..100
            /\ m.bestPractices \in 80..100
            /\ m.coreWebVitals.lcp >= 10000000 /\ m.coreWebVitals.lcp < 30000000
            /\ m.coreWebVitals.fid >= 500000 /\ m.coreWebVitals.fid < 1500000
            /\ m.coreWebVitals.cls >= 500 /\ m.coreWebVitals.cls < 1500

C7_Witness ==
    /\ outcome = "returned"
    /\ fetchOutcome = "threw"
    /\ result.technicalMetrics.performance = 60
    /\ result.technicalMetrics.bestPractices = 100
    /\ result.technicalMetrics.coreWebVitals.lcp > 25000000

\* the metric built from category c, and the default the spec documents
MetricOf(m, c) == CASE c = "performance" -> m.performance
                    [] c = "accessibility" -> m.accessibility
                    [] c = "best-practices" -> m.bestPractices
                    [] OTHER -> m.seoScore

DefaultOf(c) == CASE c = "performance" -> 70
                  [] c = "accessibility" -> 80
                  [] c = "best-practices" -> 85
                  [] OTHER -> 75

VitalOf(m, a) == CASE a = "largest-contentful-paint" -> m.coreWebVitals.lcp
                   [] a = "first-input-delay" -> m.coreWebVitals.fid
                   [] OTHER -> m.coreWebVitals.cls

VitalDefaultOf(a) == CASE a = "largest-contentful-paint" -> 25000000
                       [] a = "first-input-delay" -> 1000000
                       [] OTHER -> 1000

\* C8: in every returned result each of performance, seoScore,
\* accessibility and bestPractices is the category's fraction times 100,
\* rounded, whenever the report has the category (a fraction of 0 gives 0),
\* and the field's default only when it has not; lcp, fid and cls are the
\* report's values whenever the audit is present (0 included) and the
\* defaults only when it is absent.
C8_MetricsFromReport ==
    outcome = "returned" =>
        LET m == result.technicalMetrics
            present(x) == pageSpeedData.lighthouseResult /\ x # Absent
        IN  /\ \A c \in Categories :
                  LET s == pageSpeedData.score[c]
                  IN  IF present(s)
                      THEN 100 * MetricOf(m, c) - s <= 50 /\ s - 100 * MetricOf(m, c) <= 50
                      ELSE MetricOf(m, c) = DefaultOf(c)
            /\ \A a \in Audits :
                  LET v == pageSpeedData.numericValue[a]
                  IN  VitalOf(m, a) = IF present(v) THEN v ELSE VitalDefaultOf(a)

\* C9: a status-200 response whose body lacks categories, audits, the
\* report object or is missing altogether never fails the run: with a page
\* whose metadata carries its URL and a callback that does not throw, the
\* finished run has returned an AuditResult.
C9_PartialReportDegrades ==
    (pc = "done" /\ fetchOutcome = "ok" /\ onProgress # "faulty" /\ page.metaUrl = "ok")
        => (outcome = "returned" /\ result # EmptyResult)

\* C10: in every returned result the score is the weighted sum
\* 0.30 seoScore + 0.25 performance + 0.20 accessibility + 0.15 bestPractices
\* + 0.10 max(0, 100 - 5 negativeFactors.length) of that same result, rounded
\* to the nearest integer, and lies in 0..100.
C10_ScoreIsWeightedSum ==
    outcome = "returned" =>
        LET m == result.technicalMetrics
            n == Len(result.negativeFactors)
            penalty == IF 100 - 5 * n > 0 THEN 100 - 5 * n ELSE 0
            sum == 30 * m.seoScore + 25 * m.performance + 20 * m.accessibility
                   + 15 * m.bestPractices + 10 * penalty
        IN  /\ result.score \in 0..100
            /\ 100 * result.score - sum <= 50
            /\ sum - 100 * result.score <= 50

C10_Witness ==
    /\ outcome = "returned"
    /\ Len(result.negativeFactors) = 7
    /\ result.technicalMetrics.seoScore # result.technicalMetrics.performance
    /\ result.score > 0

----------------------------------------------------------------------------
(* Properties of the analysis *)

\* the number of level-1 headings of a returned pageContent
LevelOneHeadings(content) ==
    Cardinality({i \in 1..Len(content.headings) : content.headings[i].level = 1})

\* the number of factors of a list that carry one of the titles
Titled(list, titles) == Cardinality({i \in 1..Len(list) : list[i].title \in titles})

\* the factors of a list that carry one of the titles
FactorsTitled(list, titles) == {list[i] : i \in {j \in 1..Len(list) : list[j].title \in titles}}

\* C11: in every returned result headingsStructure is true iff
\* pageContent.headings holds exactly one heading of level 1.
C11_HeadingsStructureIffOneH1 ==
    outcome = "returned" =>
        (result.technicalMetrics.headingsStructure <=> LevelOneHeadings(result.pageContent) = 1)

C11_Witness ==
    /\ outcome = "returned"
    /\ LevelOneHeadings(result.pageContent) = 2
    /\ ~result.technicalMetrics.headingsStructure

\* C12: in every returned result imageOptimization is
\* 100 * (images with alt) / max(images, 1) rounded to the nearest integer:
\* 0 for no images, and always within 0..100.
C12_ImageOptimizationIsRoundedShare ==
    outcome = "returned" =>
        LET imgs == result.pageContent.images
            total == Len(imgs)
            withAlt == Cardinality({i \in 1..total : imgs[i].hasAlt})
            io == result.technicalMetrics.imageOptimization
        IN  /\ io \in 0..100
            /\ total = 0 => io = 0
            /\ total > 0 => /\ 2 * (io * total - 100 * withAlt) <= total
                            /\ 2 * (100 * withAlt - io * total) <= total

C12_Witness ==
    /\ outcome = "returned"
    /\ Len(result.pageContent.images) = 3
    /\ result.technicalMetrics.imageOptimization = 67

\* C13: the recommendations of a result are exactly one title
\* recommendation iff the title is non-empty with a length outside 30..60,
\* and one performance recommendation iff performance < 80; each comes with
\* the negative factor of its concern, and there are no more
\* recommendations than negative factors.
C13_RecommendationsOnlyTitleAndPerformance ==
    outcome = "returned" =>
        LET recs == result.recommendations
            negs == result.negativeFactors
            t == result.pageContent.title
            titleOff == t > 0 /\ (t < 30 \/ t > 60)
            slow == result.technicalMetrics.performance < 80
        IN  /\ Titled(recs, {"Optimize Title Length"}) = (IF titleOff THEN 1 ELSE 0)
            /\ Titled(recs, {"Improve Page Speed"}) = (IF slow THEN 1 ELSE 0)
            /\ Len(recs) = (IF titleOff THEN 1 ELSE 0) + (IF slow THEN 1 ELSE 0)
            /\ titleOff => Titled(negs, {"Suboptimal Title Length"}) = 1
            /\ slow => Titled(negs, {"Poor Performance Score"}) = 1
            /\ Len(recs) <= Len(negs)

\* an empty title, no meta description, no H1, thin text, no HTTPS and a
\* slow page give six negative factors and the performance recommendation alone
C13_Witness ==
    /\ outcome = "returned"
    /\ result.pageContent.title = 0
    /\ result.pageContent.metaDescription = 0
    /\ ~result.technicalMetrics.httpsEnabled
    /\ Len(result.negativeFactors) >= 6
    /\ Len(result.recommendations) = 1
    /\ result.recommendations[1].title = "Improve Page Speed"

TitleFactors == {"Optimal Title Length", "Suboptimal Title Length", "Missing Page Title"}
WordCountFactors == {"Adequate Content Length", "Thin Content"}
H1Factors == {"Proper H1 Structure", "Missing H1 Tag", "Multiple H1 Tags"}
ImageFactors == {"Good Image Alt Text Coverage", "Missing Image Alt Text"}

\* C14: a non-empty title gives exactly one title factor: a positive one of
\* high impact iff its length is within 30..60 (30 and 60 included), a
\* negative one of high impact otherwise.
C14_TitleFactorByLength ==
    outcome = "returned" =>
        LET t == result.pageContent.title
            pos == FactorsTitled(result.positiveFactors, TitleFactors)
            neg == FactorsTitled(result.negativeFactors, TitleFactors)
        IN  t > 0 =>
              /\ Titled(result.positiveFactors, TitleFactors)
                   + Titled(result.negativeFactors, TitleFactors) = 1
              /\ (t >= 30 /\ t <= 60) => (pos # {} /\ \A f \in pos : f.impact = "high")
              /\ (t < 30 \/ t > 60) => (neg # {} /\ \A f \in neg : f.impact = "high")

C14_Witness ==
    /\ outcome = "returned"
    /\ result.pageContent.title = 60
    /\ Titled(result.positiveFactors, TitleFactors) = 1

\* C15: every run gives exactly one word-count factor: a positive one of
\* medium impact iff wordCount >= 300, otherwise a negative one of medium
\* impact with status warning.
C15_WordCountFactorByThreshold ==
    outcome = "returned" =>
        LET w == result.pageContent.wordCount
            pos == FactorsTitled(result.positiveFactors, WordCountFactors)
            neg == FactorsTitled(result.negativeFactors, WordCountFactors)
        IN  /\ Titled(result.positiveFactors, WordCountFactors)
                 + Titled(result.negativeFactors, WordCountFactors) = 1
            /\ w >= 300 => (pos # {} /\ \A f \in pos : f.impact = "medium")
            /\ w < 300 => (neg # {} /\ \A f \in neg : f.impact = "medium" /\ f.status = "warning")

C15_Witness ==
    /\ outcome = "returned"
    /\ result.pageContent.wordCount = 300
    /\ Titled(result.positiveFactors, WordCountFactors) = 1

\* C16: every run gives exactly one H1 factor: positive of high impact iff
\* there is one level-1 heading, negative of high impact iff there is none,
\* negative of medium impact with the H1 count as its value iff there are
\* several.
C16_H1FactorByCount ==
    outcome = "returned" =>
        LET n == LevelOneHeadings(result.pageContent)
            pos == FactorsTitled(result.positiveFactors, H1Factors)
            neg == FactorsTitled(result.negativeFactors, H1Factors)
        IN  /\ Titled(result.positiveFactors, H1Factors)
                 + Titled(result.negativeFactors, H1Factors) = 1
            /\ n = 1 => (pos # {} /\ \A f \in pos : f.impact = "high")
            /\ n = 0 => (neg # {} /\ \A f \in neg : f.impact = "high")
            /\ n > 1 => (neg # {} /\ \A f \in neg :
                            f.impact = "medium" /\ f.value.kind = "number" /\ f.value.a = n)

C16_Witness ==
    /\ outcome = "returned"
    /\ LevelOneHeadings(result.pageContent) = 2
    /\ Titled(result.negativeFactors, {"Multiple H1 Tags"}) = 1

\* C17: the image rule gives a positive factor of medium impact iff there
\* are images and at least 90% of them have alt text, a negative factor of
\* medium impact iff there are images and fewer than 90% have alt text, and
\* no factor in any list when there are no images.
C17_ImageFactorByCoverage ==
    outcome = "returned" =>
        LET imgs == result.pageContent.images
            total == Len(imgs)
            withAlt == Cardinality({i \in 1..total : imgs[i].hasAlt})
            pos == FactorsTitled(result.positiveFactors, ImageFactors)
            neg == FactorsTitled(result.negativeFactors, ImageFactors)
            any == Titled(result.positiveFactors, ImageFactors)
                     + Titled(result.negativeFactors, ImageFactors)
            inAnyList == {i \in 1..Len(result.positiveFactors) :
                              result.positiveFactors[i].category = "Accessibility"}
                         \cup {i \in 1..Len(result.negativeFactors) :
                              result.negativeFactors[i].category = "Accessibility"}
                         \cup {i \in 1..Len(result.recommendations) :
                              result.recommendations[i].category = "Accessibility"}
        IN  /\ total = 0 => (any = 0 /\ inAnyList = {})
            /\ (total > 0 /\ 100 * withAlt >= 90 * total) =>
                  (any = 1 /\ pos # {} /\ \A f \in pos : f.impact = "medium")
            /\ (total > 0 /\ 100 * withAlt < 90 * total) =>
                  (any = 1 /\ neg # {} /\ \A f \in neg : f.impact = "medium")

C17_Witness ==
    /\ outcome = "returned"
    /\ Len(result.pageContent.images) = 10
    /\ result.technicalMetrics.imageOptimization = 90
    /\ Titled(result.positiveFactors, ImageFactors) = 1

\* the lists of the state are the rule evaluations' appends, in order
FactorsAreRuleOutputs(r) ==
    /\ factors.positiveFactors =
         r[1].positiveFactors \o r[2].positiveFactors \o r[3].positiveFactors \o r[4].positiveFactors
           \o r[5].positiveFactors \o r[6].positiveFactors \o r[7].positiveFactors
    /\ factors.negativeFactors =
         r[1].negativeFactors \o r[2].negativeFactors \o r[3].negativeFactors \o r[4].negativeFactors
           \o r[5].negativeFactors \o r[6].negativeFactors \o r[7].negativeFactors
    /\ factors.recommendations =
         r[1].recommendations \o r[2].recommendations \o r[3].recommendations \o r[4].recommendations
           \o r[5].recommendations \o r[6].recommendations \o r[7].recommendations

ListsAppendedTo(o) ==
    (IF o.positiveFactors # <<>> THEN 1 ELSE 0) + (IF o.negativeFactors # <<>> THEN 1 ELSE 0)
      + (IF o.recommendations # <<>> THEN 1 ELSE 0)

\* C18 as stated: each rule evaluation appends to exactly one of the three
\* lists.
C18_EachRuleAppendsToOneList ==
    Completed("factors") =>
        LET r == RuleOutputs(pageContent, technicalMetrics)
        IN  /\ FactorsAreRuleOutputs(r)
            /\ \A i \in 1..Len(r) : ListsAppendedTo(r[i]) = 1

\* C18, amended: each rule evaluation appends at most one factor, to the
\* positive or to the negative list and never to both; it appends none only
\* when it is the image rule on a page without images; and it appends a
\* recommendation only together with its negative factor, which only the
\* title rule and the performance rule do.
C18_EachRuleAppendsOneFactor ==
    Completed("factors") =>
        LET r == RuleOutputs(pageContent, technicalMetrics)
        IN  /\ FactorsAreRuleOutputs(r)
            /\ \A i \in 1..Len(r) :
                  /\ Len(r[i].positiveFactors) + Len(r[i].negativeFactors) <= 1
                  /\ Len(r[i].recommendations) <= Len(r[i].negativeFactors)
                  /\ r[i].recommendations # <<>> => i \in {1, 7}
                  /\ (r[i].positiveFactors = <<>> /\ r[i].negativeFactors = <<>>)
                       <=> (i = 4 /\ pageContent.images = <<>>)

C18_Witness ==
    /\ Completed("factors")
    /\ pageContent.title = 61
    /\ Len(TitleRule(pageContent).negativeFactors) = 1
    /\ Len(TitleRule(pageContent).recommendations) = 1
    /\ Titled(factors.recommendations, {"Optimize Title Length"}) = 1

\* the factors of a list that carry a status
WithStatus(list, st) == {list[i] : i \in {j \in 1..Len(list) : list[j].status = st}}

\* C19: in every result the positive factors have status pass and the
\* negative ones fail or warning; a warning is only on a meta description
\* that is present and out of range, on more than one H1, or on fewer than
\* 300 words, never on a factor that reports an absent element.
C19_StatusByList ==
    outcome = "returned" =>
        LET c == result.pageContent
            pos == result.positiveFactors
            neg == result.negativeFactors
        IN  /\ \A i \in 1..Len(pos) : pos[i].status = "pass"
            /\ \A i \in 1..Len(neg) : neg[i].status \in {"fail", "warning"}
            /\ \A f \in WithStatus(neg, "warning") :
                  \/ /\ f.title = "Suboptimal Meta Description"
                     /\ c.metaDescription > 0
                     /\ (c.metaDescription < 120 \/ c.metaDescription > 160)
                  \/ /\ f.title = "Multiple H1 Tags"
                     /\ LevelOneHeadings(c) > 1
                  \/ /\ f.title = "Thin Content"
                     /\ c.wordCount < 300
            /\ \A f \in WithStatus(neg, "warning") : f.value # NoValue
            /\ \A i \in 1..Len(neg) :
                  neg[i].title \in {"Missing Page Title", "Missing Meta Description", "Missing H1 Tag"}
                    => neg[i].status = "fail"

C19_Witness ==
    /\ outcome = "returned"
    /\ result.pageContent.metaDescription = 119
    /\ result.pageContent.title = 0
    /\ \E f \in WithStatus(result.negativeFactors, "warning") : f.title = "Suboptimal Meta Description"
    /\ \E f \in WithStatus(result.negativeFactors, "fail") : f.title = "Missing Page Title"

\* C20: link extraction never fails and classifies each link: isInternal iff
\* the href is not an HTTP(S) one or its host is the page's host; with a
\* missing or malformed page URL every HTTP(S) link is external.
C20_LinkExtractionNeverFails ==
    (pc = "done" /\ ScrapeSucceeded /\ onProgress = "ok") =>
        /\ Completed("content")
        /\ Len(pageContent.links) = Len(page.links)
        /\ \A i \in 1..Len(page.links) :
              /\ pageContent.links[i].isInternal
                   <=> (~page.links[i].http \/ page.links[i].sameHost)
              /\ (page.metaUrl # "ok" /\ page.links[i].http) => ~pageContent.links[i].isInternal

\* 206.835 - 1.015 (words / sentences) - 84.6 (1.5 words / words), in 1/10000
Flesch(words, sentences) == 2068350 - ((10150 * words) \div sentences) - 1269000

\* C21 as stated: the stored readability score is the value of the formula,
\* not clamped.
C21_ReadabilityUnclamped ==
    (Completed("content") /\ page.words > 0) =>
        pageContent.readabilityScore = Flesch(page.words, page.sentences)

\* C21, amended: for a page with at least one word the stored readability
\* score is the value of the formula clamped to 0..100: 0 when the formula
\* is negative, 100 when it exceeds 100.
C21_ReadabilityClamped ==
    (Completed("content") /\ page.words > 0) =>
        LET x == Flesch(page.words, page.sentences)
        IN  /\ pageContent.readabilityScore \in 0..1000000
            /\ x < 0 => pageContent.readabilityScore = 0
            /\ x > 1000000 => pageContent.readabilityScore = 1000000
            /\ x \in 0..1000000 => pageContent.readabilityScore = x

C21_Witness ==
    /\ Completed("content")
    /\ page.words = 299
    /\ page.sentences = 1
    /\ Flesch(page.words, page.sentences) < 0
    /\ pageContent.readabilityScore = 0

MetaDescriptionFactors == {"Good Meta Description", "Suboptimal Meta Description", "Missing Meta Description"}
HttpsFactors == {"HTTPS Enabled", "HTTPS Not Enabled"}
PerformanceFactors == {"Good Performance Score", "Poor Performance Score"}

\* the factors a concern has put into the positive and the negative list
Contribution(titles) ==
    Titled(result.positiveFactors, titles) + Titled(result.negativeFactors, titles)

\* C28: in every result each of title, meta description, H1 count, word
\* count, HTTPS and performance contributes exactly one factor to the
\* positive or the negative list, image-alt coverage exactly one iff the page
\* has an image; so the two lists hold 6 or 7 factors, at most 7 are
\* negative, and 100 - 5 negativeFactors.length is at least 65.
C28_OneFactorPerConcern ==
    outcome = "returned" =>
        /\ \A titles \in {TitleFactors, MetaDescriptionFactors, H1Factors, WordCountFactors,
                          HttpsFactors, PerformanceFactors} : Contribution(titles) = 1
        /\ Contribution(ImageFactors) = (IF result.pageContent.images # <<>> THEN 1 ELSE 0)
        /\ Len(result.positiveFactors) + Len(result.negativeFactors)
             = (IF result.pageContent.images # <<>> THEN 7 ELSE 6)
        /\ Len(result.negativeFactors) <= 7
        /\ 100 - 5 * Len(result.negativeFactors) >= 65

C28_Witness ==
    /\ outcome = "returned"
    /\ Len(result.negativeFactors) = 7
    /\ result.positiveFactors = <<>>

-----------------------------------------------------------------------------
(* Properties of the run, continued *)

\* C24: the progress callback does not affect control flow: whatever the
\* callback (absent, returning, failing), a finished run has called the
\* scrape iff the URL parsed, has asked for the report iff the scrape
\* succeeded, and has not ended with the callback's failure.
C24_CallbackDoesNotAffectRun ==
    pc = "done" =>
        /\ scrapeCalls = (IF UrlParses(url) THEN 1 ELSE 0)
        /\ fetchCalls = (IF ScrapeSucceeded THEN 1 ELSE 0)
        /\ error # CallbackError

\* C26: within one run the scrape collaborator and the performance-report
\* collaborator are each invoked at most once, whether the call succeeds or
\* fails.
C26_CollaboratorsCalledAtMostOnce ==
    /\ scrapeCalls <= 1
    /\ fetchCalls <= 1

C26_Witness ==
    /\ pc = "done"
    /\ fetchOutcome = "threw"
    /\ scrapeCalls = 1
    /\ fetchCalls = 1

\* C29: in every returned result pageSpeed equals performance, and
\* mobileScore equals seoScore whenever the report carries an SEO category;
\* without one mobileScore is 80 and seoScore 75.
C29_DuplicatedMetrics ==
    (outcome = "returned" /\ fetchOutcome = "ok") =>
        LET m == result.technicalMetrics
        IN  /\ m.pageSpeed = m.performance
            /\ IF CategoryScore(pageSpeedData, "seo") # Absent
               THEN m.mobileScore = m.seoScore
               ELSE m.mobileScore = 80 /\ m.seoScore = 75

\* what this run has reported and ended with
ThisRunEnd == [progress |-> progress, outcome |-> outcome, error |-> error, result |-> result]

\* what the other run has reported and ended with
OtherRunEnd == [progress |-> other.progress, outcome |-> other.outcome, error |-> other.error,
                result |-> other.result]

-----------------------------------------------------------------------------
(* Properties of the inspection *)

\* C22: hasOpenGraph is true iff one of ogTitle, ogDescription, ogImage is
\* present, and hasTwitterCards is true iff one of the twitter card, title,
\* description or image fields is present.
C22_SocialPresence ==
    Completed("social") =>
        /\ socialMedia.hasOpenGraph <=> (page.ogTitle \/ page.ogDescription \/ page.ogImage)
        /\ socialMedia.hasTwitterCards
             <=> (page.twitterCard \/ page.twitterTitle \/ page.twitterDescription \/ page.twitterImage)

\* C23: hasSchema is true iff the metadata carries a JSON-LD block or the
\* text holds a schema.org reference or a JSON-LD script marker; types is
\* [Organization, WebPage] and errors is empty when it is true, types is
\* empty and errors is ["No structured data found"] when it is false.
C23_StructuredDataReport ==
    Completed("structured") =>
        /\ structuredData.hasSchema <=> (page.jsonLd > 0 \/ page.schemaOrg \/ page.ldJson)
        /\ (structuredData.types = <<>>) # (structuredData.errors = <<>>)
        /\ structuredData.hasSchema =>
              (structuredData.types = <<"Organization", "WebPage">> /\ structuredData.errors = <<>>)
        /\ ~structuredData.hasSchema =>
              (structuredData.types = <<>> /\ structuredData.errors = <<"No structured data found">>)
        /\ outcome = "returned" => result.structuredData = structuredData

C23_Witness ==
    /\ outcome = "returned"
    /\ page.ldJson /\ ~page.schemaOrg /\ page.jsonLd = 0
    /\ result.structuredData.hasSchema
    /\ result.structuredData.types = <<"Organization", "WebPage">>

-----------------------------------------------------------------------------
(* Properties of the App *)

\* the Button is enabled
ButtonEnabled == url # <<>> /\ ~app.isAnalyzing

\* C27: after an audit attempt has finished exactly one of auditResult and
\* error is set: a failed run leaves error with its message and auditResult
\* null, a successful one leaves auditResult set and error null; auditResult
\* and error are never both non-null.
C27_ResultXorError ==
    /\ ~(app.auditResult.isNull = FALSE /\ app.error # "null")
    /\ (app.audits > 0 /\ ~app.isAnalyzing) =>
          /\ app.auditResult.isNull # (app.error = "null")
          /\ outcome = "threw" => (app.error = error /\ app.auditResult.isNull)
          /\ outcome = "returned" => (app.auditResult = SetResult(result) /\ app.error = "null")

C27_Witness ==
    /\ app.audits = 2
    /\ ~app.isAnalyzing
    /\ outcome = "returned"
    /\ app.auditResult = SetResult(result)
    /\ app.error = "null"

\* C30: a handleAudit that has set isAnalyzing leads, the run settling, to
\* isAnalyzing being false again and the Button enabled, whether the run
\* resolved or rejected.
C30_AnalyzingEventuallyCleared ==
    app.isAnalyzing ~> (~app.isAnalyzing /\ ButtonEnabled)

C30_Witness ==
    /\ app.audits = 1
    /\ outcome = "threw"
    /\ app.error = ScrapeFailedMessage
    /\ ButtonEnabled

====
